---------------------------- MODULE Spec2Model ----------------------------
(***************************************************************************)
(* Request orchestration of the TravelTime platform QGIS plugin.           *)
(*                                                                         *)
(* Two revisions of the engine are modelled, as src/ holds both:           *)
(*   "algorithms"  AdvancedAlgorithmBase.processAlgorithm                  *)
(*                 (src/algorithms.py): batching, rate-limit guard,        *)
(*                 cached POST, error handling, output;                    *)
(*   "base"        AlgorithmBase.processAlgorithmMakeRequest               *)
(*                 (src/travel_time_platform_plugin/algorithms/base.py):   *)
(*                 one authenticated request through the cache.            *)
(* A host process runs one revision of the plugin: `version` is fixed in   *)
(* the initial state, and the persisted settings and the response cache    *)
(* are those of that revision.                                             *)
(***************************************************************************)
EXTENDS Integers, Sequences, FiniteSets, TLC

(***************************************************************************)
(* Program constants.                                                      *)
(***************************************************************************)
\* slicing_size = 10
slicing_size == 10
\* retries = 10
retries == 10

(***************************************************************************)
(* Bounds of the model.                                                    *)
(***************************************************************************)
\* largest feature count of an input layer under SpecBatch
MaxRecords == 21
\* cap of the persisted counter current_count
MaxCount == 3
\* largest warning_limit the operator sets
MaxLimit == 2
\* largest number of results of a response under SpecCorrelate
MaxResults == 3

\* "no layer given" for an optional feature source (Python None)
NoSource == -1

VARIABLES
    version,            \* revision of the plugin the host runs
    warning_enabled,    \* QSettings .../warning_enabled
    current_count,      \* QSettings .../current_count
    warning_limit,      \* QSettings .../warning_limit
    cache,              \* cached_requests: fingerprint -> stored response
    source_departure,   \* feature count of INPUT_DEPARTURE_SEARCHES or NoSource
    source_arrival,     \* feature count of INPUT_ARRIVAL_SEARCHES or NoSource
    pc,                 \* position of the running operation
    APP_ID,             \* credentials read by auth.get_app_id_and_api_key()
    API_KEY,
    slicing_count,      \* number of slices of the operation
    slicing_i,          \* index of the current slice
    data,               \* payload of the current request
    i,                  \* index of the rate-limit loop
    response,           \* response of the current request
    from_cache,         \* response.from_cache
    results,            \* results accumulated over the slices
    reported,           \* kind of the fatal error reported, or "none"
    raised,             \* exception that left the operation, or "none"
    returned,           \* what reached the caller
    slices,             \* payloads built so far in this operation
    posted,             \* calls of the caching client in this operation
    netcalls,           \* network calls in this operation
    counted,            \* the engine wrote current_count in this request cycle
    first_over,         \* the first check of this guard was over threshold
    external,           \* the operator changed the settings during this guard
    algorithm,          \* the algorithm run: "advanced", "time_map", "time_filter"
    compute_union,      \* INPUT_CALC_UNION
    compute_inter,      \* INPUT_CALC_INTER
    locations,          \* ids of the features of INPUT_LOCATIONS, in layer order
    error_body,         \* the error body the service answers with
    result_type,        \* INPUT_RESULT_TYPE of TimeMapSimpleAlgorithm, or "none"
    log_calls,          \* QSettings .../log_calls
    previous,           \* shared state left by the operation that failed before
    logged,             \* lines written to the log for the current request
    sent,               \* headers handed to the HTTP client, or NoHeaders
    error_text,         \* text of the API error reported
    exception,          \* exception the request call raised, or "none"
    sinks               \* features added to the output sinks

vars == << version, warning_enabled, current_count, warning_limit, cache,
           source_departure, source_arrival, pc, APP_ID, API_KEY,
           slicing_count, slicing_i, data, i, response, from_cache, results,
           reported, raised, returned, slices, posted, netcalls, counted,
           first_over, external, algorithm, compute_union, compute_inter,
           locations, error_body, error_text, exception, sinks, result_type,
           log_calls, previous, logged, sent >>

settings == << warning_enabled, current_count, warning_limit >>
inputs == << version, source_departure, source_arrival, algorithm,
             compute_union, compute_inter, locations, error_body,
             result_type, log_calls, previous >>
\* what the call of the HTTP client leaves behind
call == << exception, logged, sent >>
locals == << APP_ID, API_KEY, slicing_count, slicing_i, data, i, response,
             from_cache, results, reported, raised, returned, slices, posted,
             netcalls, counted, first_over, external, error_text, exception,
             sinks, logged, sent >>

\* no error body: the response is not an error of the service
NoError == [error_code |-> "", description |-> "", documentation_link |-> "",
            additional_info |-> << >>]
NoResponse == [status_code |-> 0, valid |-> FALSE, results |-> << >>,
               error |-> NoError]
\* the sinks of the output layers, with no feature added
NoSinks == [searches |-> << >>, union |-> << >>, inter |-> << >>,
            reached |-> << >>, unreachable |-> << >>, output |-> << >>]
\* no request was handed to the HTTP client
NoHeaders == [content_type |-> "", app_id |-> "", api_key |-> ""]
\* no operation has failed before
NoPrevious == [failed |-> FALSE, slicing_i |-> 0, current_count |-> 0]
\* data = {} : a payload with no key
NoData == [keys |-> {}, departure_searches |-> << >>, arrival_searches |-> << >>,
           unions |-> << >>, intersections |-> << >>, locations |-> << >>]
NotReturned == [called |-> FALSE, results |-> << >>]

(***************************************************************************)
(* Batching (src/algorithms.py, 230-287).                                  *)
(***************************************************************************)
\* source.featureCount() if source else 0
featureCount(source) == IF source # NoSource THEN source ELSE 0

Max(a, b) == IF a >= b THEN a ELSE b

\* the slicing count rounded down instead of up
SlicingCountFloor(source_departure_count, source_arrival_count) ==
    Max(source_departure_count, source_arrival_count) \div slicing_size

\* math.ceil(max(source_departure_count, source_arrival_count) / slicing_size)
SlicingCount(source_departure_count, source_arrival_count) ==
    (Max(source_departure_count, source_arrival_count) + slicing_size - 1)
        \div slicing_size

\* source.getFeatures(): the features of a layer, in layer order ($id 0..N-1)
getFeatures(source) == [k \in 1..featureCount(source) |-> k - 1]

\* the search definition built from one feature
Search(deparr, feature) ==
    [id |-> [side |-> deparr, fid |-> feature], coords |-> feature]

\* for i, feature in enumerate(source.getFeatures()):
\*     if i < slicing_start or i >= slicing_end: continue
\*     data[deparr+'_searches'].append({...})
RECURSIVE LoadSearches(_, _, _, _, _)
LoadSearches(deparr, features, n, slicing_start, slicing_end) ==
    IF features = << >> THEN << >>
    ELSE (IF n < slicing_start \/ n >= slicing_end
            THEN << >>
            ELSE << Search(deparr, Head(features)) >>)
         \o LoadSearches(deparr, Tail(features), n + 1, slicing_start, slicing_end)

\* the payload of slice slicing_i before the remix
PrepareData(src_departure, src_arrival, slice_i) ==
    LET slicing_start == slice_i * slicing_size
        slicing_end == (slice_i + 1) * slicing_size
    IN [keys |-> (IF src_departure # NoSource THEN {"departure_searches"} ELSE {})
                 \cup (IF src_arrival # NoSource THEN {"arrival_searches"} ELSE {}),
        departure_searches |->
            IF src_departure # NoSource
              THEN LoadSearches("departure", getFeatures(src_departure), 0,
                                slicing_start, slicing_end)
              ELSE << >>,
        arrival_searches |->
            IF src_arrival # NoSource
              THEN LoadSearches("arrival", getFeatures(src_arrival), 0,
                                slicing_start, slicing_end)
              ELSE << >>,
        unions |-> << >>, intersections |-> << >>, locations |-> << >>]

\* AdvancedAlgorithmBase.processAlgorithmRemixData: return data
processAlgorithmRemixData(d) == d

\* the ids of the aggregation results
union_all == [side |-> "union_all", fid |-> 0]
intersection_all == [side |-> "intersection_all", fid |-> 0]

\* [d['id'] for d in searches]
SearchIds(searches) == [k \in 1..Len(searches) |-> searches[k].id]

\* for deparr in ['departure','arrival']: if deparr+'_searches' in data:
\*     for d in data[deparr+'_searches']: search_ids.append(d['id'])
CollectSearchIds(d) ==
    (IF "departure_searches" \in d.keys THEN SearchIds(d.departure_searches)
                                        ELSE << >>)
    \o (IF "arrival_searches" \in d.keys THEN SearchIds(d.arrival_searches)
                                         ELSE << >>)

\* a remix that sets both keys whatever the flags are
TimeMapAlgorithm_RemixDataBothKeys(d, union, inter) ==
    IF union \/ inter
      THEN [d EXCEPT !.keys = @ \cup {"unions", "intersections"},
                     !.unions = << [id |-> union_all,
                                    search_ids |-> CollectSearchIds(d)] >>,
                     !.intersections = << [id |-> intersection_all,
                                           search_ids |-> CollectSearchIds(d)] >>]
      ELSE d

\* TimeMapAlgorithm.processAlgorithmRemixData (lines 430-447)
TimeMapAlgorithm_processAlgorithmRemixData(d, union, inter) ==
    IF union \/ inter
      THEN LET search_ids == CollectSearchIds(d)
               with_union ==
                   IF union
                     THEN [d EXCEPT !.keys = @ \cup {"unions"},
                                    !.unions = << [id |-> union_all,
                                                   search_ids |-> search_ids] >>]
                     ELSE d
           IN IF inter
                THEN [with_union EXCEPT
                         !.keys = @ \cup {"intersections"},
                         !.intersections = << [id |-> intersection_all,
                                               search_ids |-> search_ids] >>]
                ELSE with_union
      ELSE d

\* lines 544-554: data['locations'] = [{'id': ..., 'coords': ...} for each
\* feature of INPUT_LOCATIONS]; locs holds the ids, in layer order
LocationRecords(locs) == [k \in 1..Len(locs) |-> [id |-> locs[k], coords |-> k - 1]]

\* the counterpart ids read after the searches were appended to the list
AllLocationsIdsMerged(layer_records, merged) == SearchIds(merged)

\* line 560: all_locations_ids = [l['id'] for l in data['locations']], read
\* before any search is appended to data['locations']
AllLocationsIds(layer_records, merged) == SearchIds(layer_records)

\* lines 563-566, 571-574: the entry appended to data['locations'] for a search
LocationOf(search) == [id |-> search.id, coords |-> search.coords]

\* a remix that leaves the coords in the search
RemixSearchKeepCoords(deparr, search, all_locations_ids) ==
    IF deparr = "departure"
      THEN [id |-> search.id, coords |-> search.coords,
            departure_location_id |-> search.id,
            arrival_location_ids |-> all_locations_ids]
      ELSE [id |-> search.id, coords |-> search.coords,
            arrival_location_id |-> search.id,
            departure_location_ids |-> all_locations_ids]

\* lines 567-569, 575-577: del search['coords'], the id of its own location
\* and the ids of its counterparts
RemixSearch(deparr, search, all_locations_ids) ==
    IF deparr = "departure"
      THEN [id |-> search.id,
            departure_location_id |-> search.id,
            arrival_location_ids |-> all_locations_ids]
      ELSE [id |-> search.id,
            arrival_location_id |-> search.id,
            departure_location_ids |-> all_locations_ids]

\* TimeFilterAlgorithm.processAlgorithmRemixData (lines 540-580)
TimeFilterAlgorithm_processAlgorithmRemixData(d, locs) ==
    LET layer_records == LocationRecords(locs)
        dep == IF "departure_searches" \in d.keys THEN d.departure_searches
                                                  ELSE << >>
        arr == IF "arrival_searches" \in d.keys THEN d.arrival_searches
                                                ELSE << >>
        merged == layer_records
                  \o [k \in 1..Len(dep) |-> LocationOf(dep[k])]
                  \o [k \in 1..Len(arr) |-> LocationOf(arr[k])]
        all_locations_ids == AllLocationsIds(layer_records, merged)
    IN [d EXCEPT
           !.keys = @ \cup {"locations"},
           !.locations = merged,
           !.departure_searches =
               [k \in 1..Len(dep) |->
                   RemixSearch("departure", dep[k], all_locations_ids)],
           !.arrival_searches =
               [k \in 1..Len(arr) |->
                   RemixSearch("arrival", arr[k], all_locations_ids)]]

\* self.processAlgorithmRemixData(data, ...): the method of the algorithm run
RemixData(d) ==
    CASE algorithm = "time_map" ->
             TimeMapAlgorithm_processAlgorithmRemixData(d, compute_union,
                                                        compute_inter)
      [] algorithm = "time_filter" ->
             TimeFilterAlgorithm_processAlgorithmRemixData(d, locations)
      [] OTHER -> processAlgorithmRemixData(d)

(***************************************************************************)
(* Credentials and headers.                                                *)
(***************************************************************************)
AppIds == {"", "app"}
ApiKeys == {"", "key"}

\* a check of the application id alone
MissingAppIdOnly(app_id, api_key) == app_id = ""

\* if not APP_ID or not API_KEY
MissingCredentials(app_id, api_key) == app_id = "" \/ api_key = ""

Url(v) == IF v = "algorithms" THEN "https://api.traveltimeapp.com/v4/time-map"
          ELSE "endpoint+url"

Headers(app_id, api_key) ==
    [content_type |-> "application/json", app_id |-> app_id, api_key |-> api_key]

\* the headers written to the log as they are sent
headers_unhidden(headers) == headers

\* base.py lines 182-187: headers_for_logs = dict(headers), with '*hidden*'
\* in place of a non-empty X-Application-Id and of a non-empty X-Api-Key
headers_for_logs(headers) ==
    [headers EXCEPT !.app_id = IF @ # "" THEN "*hidden*" ELSE @,
                    !.api_key = IF @ # "" THEN "*hidden*" ELSE @]

\* the lines "url: ...", "headers: ...", "data: ..." of the request log:
\* algorithms.py (lines 328-331) writes the headers, base.py (lines 189-193)
\* writes headers_for_logs
LogEntry(v, headers, d) ==
    [url |-> Url(v),
     headers |-> IF v = "base" THEN headers_for_logs(headers) ELSE headers,
     data |-> d]

\* if print_query: the lines are written
LogLines(print_query, v, headers, d) ==
    IF print_query THEN << LogEntry(v, headers, d) >> ELSE << >>

(***************************************************************************)
(* The caching HTTP client and the service.                                *)
(***************************************************************************)
\* the results the service computes for a payload: one per search
RECURSIVE ResultsFor(_)
ResultsFor(searches) ==
    IF searches = << >> THEN << >>
    ELSE << [search_id |-> Head(searches).id] >> \o ResultsFor(Tail(searches))

\* the results of the time-map endpoint: one shape per search, then one per
\* union and per intersection asked for
TimeMapResults(body) ==
    LET searches == body.departure_searches \o body.arrival_searches
    IN [k \in 1..Len(searches) |->
           [search_id |-> searches[k].id, shape |-> "isochrone",
            properties |-> << >>]]
       \o [k \in 1..Len(body.unions) |->
              [search_id |-> body.unions[k].id, shape |-> "union",
               properties |-> << >>]]
       \o [k \in 1..Len(body.intersections) |->
              [search_id |-> body.intersections[k].id, shape |-> "intersection",
               properties |-> << >>]]

\* the result of the time-filter endpoint for one search: the first of its
\* counterpart locations is reached, the others are not
TimeFilterResult(search_id, counterparts) ==
    [search_id |-> search_id,
     locations |-> IF counterparts = << >> THEN << >>
                   ELSE << [id |-> Head(counterparts), properties |-> "time"] >>,
     unreachable |-> IF counterparts = << >> THEN << >> ELSE Tail(counterparts)]

TimeFilterResults(body) ==
    [k \in 1..Len(body.departure_searches) |->
        TimeFilterResult(body.departure_searches[k].id,
                         body.departure_searches[k].arrival_location_ids)]
    \o [k \in 1..Len(body.arrival_searches) |->
           TimeFilterResult(body.arrival_searches[k].id,
                            body.arrival_searches[k].departure_location_ids)]

\* the results the endpoint of the algorithm computes for a payload
ServiceResults(body) ==
    CASE algorithm = "time_map" -> TimeMapResults(body)
      [] algorithm = "time_filter" -> TimeFilterResults(body)
      [] OTHER -> ResultsFor(body.departure_searches \o body.arrival_searches)

\* the responses a network call can deliver
Responses(body) ==
    { [status_code |-> 200, valid |-> TRUE,
       results |-> ServiceResults(body),
       error |-> NoError],
      [status_code |-> 400, valid |-> TRUE, results |-> << >>,
       error |-> error_body],
      [status_code |-> 200, valid |-> FALSE, results |-> << >>, error |-> NoError],
      [status_code |-> 400, valid |-> FALSE, results |-> << >>, error |-> NoError] }

\* the failures a network call can raise
Exceptions == {"ConnectionError", "SSLError"}

\* fingerprint of a request
Fingerprint(method, url, headers, body) ==
    [method |-> method, url |-> url, headers |-> headers, body |-> body]

\* a client that stores no response
StoreNothing(c, key, resp) == c

\* a live entry of the cache for the fingerprint
Cached(c, key) == \E e \in c : e.key = key
Stored(c, key) == (CHOOSE e \in c : e.key = key).response
Store(c, key, resp) ==
    {e \in c : e.key # key} \cup {[key |-> key, response |-> resp]}


(***************************************************************************)
(* Initial states.                                                         *)
(***************************************************************************)
Idle ==
    /\ pc = "idle"
    /\ APP_ID = "" /\ API_KEY = ""
    /\ slicing_count = 0 /\ slicing_i = 0
    /\ data = NoData
    /\ i = 0
    /\ response = NoResponse /\ from_cache = FALSE
    /\ results = << >>
    /\ reported = "none" /\ raised = "none"
    /\ returned = NotReturned
    /\ slices = << >>
    /\ posted = 0 /\ netcalls = 0
    /\ counted = FALSE /\ first_over = FALSE /\ external = FALSE
    /\ error_text = << >>
    /\ exception = "none"
    /\ logged = << >>
    /\ sent = NoHeaders
    /\ sinks = NoSinks

\* the error bodies of the service: error_code, description,
\* documentation_link and the entries of additional_info
ErrorBodies ==
    { [error_code |-> "X", description |-> "Y", documentation_link |-> "Z",
       additional_info |-> << >>],
      [error_code |-> "10", description |-> "bad request",
       documentation_link |-> "docs/10",
       additional_info |-> << <<"k1", "v1">> >>],
      [error_code |-> "13", description |-> "no credit",
       documentation_link |-> "docs/13",
       additional_info |-> << <<"k1", "v1">>, <<"k2", "v2">> >>] }

\* the plain engine: no remix, no output layer, one error body
Plain ==
    /\ algorithm = "advanced"
    /\ compute_union = FALSE
    /\ compute_inter = FALSE
    /\ locations = << >>
    /\ error_body = [error_code |-> "X", description |-> "Y",
                     documentation_link |-> "Z", additional_info |-> << >>]
    /\ result_type = "none"
    /\ log_calls = FALSE
    /\ previous = NoPrevious

\* the layers the operations of Spec run on
Layers ==
    { <<NoSource, NoSource>>, <<0, NoSource>>, <<11, NoSource>>,
      <<NoSource, 3>>, <<11, 3>> }

Init ==
    /\ version \in {"algorithms", "base"}
    /\ warning_enabled = TRUE
    /\ current_count = 0
    /\ warning_limit \in 0..MaxLimit
    /\ cache = {}
    /\ \E l \in (IF version = "algorithms" THEN Layers
                                             ELSE { <<NoSource, NoSource>> }) :
          /\ source_departure = l[1]
          /\ source_arrival = l[2]
    /\ Plain
    /\ Idle

InitBatch ==
    /\ version = "algorithms"
    /\ warning_enabled \in BOOLEAN
    /\ current_count = 0
    /\ warning_limit \in {0, MaxLimit}
    /\ cache = {}
    /\ source_departure \in {NoSource} \cup 0..MaxRecords
    /\ source_arrival \in {NoSource} \cup 0..MaxRecords
    /\ Plain
    /\ Idle

\* one request cycle of either revision, with any error body of the service
InitErrors ==
    /\ version \in {"algorithms", "base"}
    /\ warning_enabled = TRUE
    /\ current_count = 0
    /\ warning_limit \in {0, MaxLimit}
    /\ cache = {}
    /\ source_departure = (IF version = "algorithms" THEN 3 ELSE NoSource)
    /\ source_arrival = NoSource
    /\ algorithm = "advanced"
    /\ compute_union = FALSE
    /\ compute_inter = FALSE
    /\ locations = << >>
    /\ error_body \in ErrorBodies
    /\ result_type = "none"
    /\ log_calls \in BOOLEAN
    /\ previous = NoPrevious
    /\ Idle

\* the ids of the features of INPUT_LOCATIONS: INPUT_LOCATIONS_ID evaluated
\* on each feature
Location(fid) == [side |-> "location", fid |-> fid]

\* the location layers of the time-filter operations: empty, one feature,
\* two features, a feature with the id of a departure search, two features
\* with the same id
LocationLayers ==
    { << >>, << Location(0) >>, << Location(0), Location(1) >>,
      << Location(0), Search("departure", 0).id >>,
      << Location(0), Location(0) >> }

\* the search layers of the time-map and time-filter operations
AlgorithmLayers ==
    { <<2, NoSource>>, <<NoSource, 2>>, <<1, 1>>, <<12, 3>> }

\* TimeMapAlgorithm and TimeFilterAlgorithm, run once on each input
InitAlgorithms ==
    /\ version = "algorithms"
    /\ warning_enabled \in BOOLEAN
    /\ current_count = 0
    /\ warning_limit \in {0, MaxLimit}
    /\ cache = {}
    /\ \E l \in AlgorithmLayers : /\ source_departure = l[1]
                                  /\ source_arrival = l[2]
    /\ \/ /\ algorithm = "time_map"
          /\ compute_union \in BOOLEAN
          /\ compute_inter \in BOOLEAN
          /\ locations = << >>
       \/ /\ algorithm = "time_filter"
          /\ compute_union = FALSE
          /\ compute_inter = FALSE
          /\ locations \in LocationLayers
    /\ error_body = CHOOSE b \in ErrorBodies : b.additional_info = << >>
    /\ result_type = "none"
    /\ log_calls = FALSE
    /\ previous = NoPrevious
    /\ Idle

\* the sequences of at most n elements of S
RECURSIVE SeqUpTo(_, _)
SeqUpTo(S, n) ==
    IF n = 0 THEN { << >> }
    ELSE LET shorter == SeqUpTo(S, n - 1)
         IN shorter \cup { Append(q, x) : q \in shorter, x \in S }

\* the ids of the searches and aggregations of the request correlated
CorrelateIds ==
    { Search("departure", 0).id, Search("departure", 1).id,
      union_all, intersection_all }

\* the results a time-map response can hold
TimeMapEntries ==
    [search_id : CorrelateIds, shape : {"isochrone", "hole"},
     properties : { << >> }]

\* the results a time-filter response can hold: at most one location
\* reached, at most one unreachable
TimeFilterEntries ==
    [search_id : { Search("departure", 0).id, Search("departure", 1).id },
     locations : { << >> }
                 \cup { << [id |-> x, properties |-> "time"] >> :
                           x \in { Location(0), Location(1) } },
     unreachable : { << >>, << Location(1) >> }]

\* the response of a one-slice operation has been decoded: its results are
\* handed to processAlgorithmOutput
InitCorrelate ==
    /\ version = "algorithms"
    /\ warning_enabled = FALSE
    /\ current_count = 1
    /\ warning_limit = 0
    /\ cache = {}
    /\ source_departure = 2
    /\ source_arrival = NoSource
    /\ \/ /\ algorithm = "time_map"
          /\ compute_union = TRUE
          /\ compute_inter = TRUE
          /\ locations = << >>
          /\ results \in SeqUpTo(TimeMapEntries, MaxResults)
       \/ /\ algorithm = "time_filter"
          /\ compute_union = FALSE
          /\ compute_inter = FALSE
          /\ locations \in LocationLayers
          /\ results \in SeqUpTo(TimeFilterEntries, MaxResults)
    /\ error_body = CHOOSE b \in ErrorBodies : b.additional_info = << >>
    /\ result_type = "none"
    /\ log_calls = FALSE
    /\ previous = NoPrevious
    /\ pc = "output"
    /\ APP_ID = "app" /\ API_KEY = "key"
    /\ slicing_count = 1 /\ slicing_i = 1
    /\ data = RemixData(PrepareData(source_departure, source_arrival, 0))
    /\ slices = << data >>
    /\ i = 0
    /\ response = [status_code |-> 200, valid |-> TRUE, results |-> results,
                   error |-> NoError]
    /\ from_cache = FALSE
    /\ reported = "none" /\ raised = "none"
    /\ returned = NotReturned
    /\ posted = 1 /\ netcalls = 1
    /\ counted = TRUE /\ first_over = FALSE /\ external = FALSE
    /\ error_text = << >>
    /\ exception = "none"
    /\ logged = << >>
    /\ sent = NoHeaders
    /\ sinks = NoSinks

\* the search layers of TimeMapSimpleAlgorithm: INPUT_SEARCHES is given to
\* the side that INPUT_SEARCH_TYPE names
SimpleLayers == { <<2, NoSource>>, <<NoSource, 2>>, <<12, NoSource>> }

\* TimeMapSimpleAlgorithm, run once on each input
InitSimple ==
    /\ version = "algorithms"
    /\ warning_enabled \in BOOLEAN
    /\ current_count = 0
    /\ warning_limit \in {0, MaxLimit}
    /\ cache = {}
    /\ \E l \in SimpleLayers : /\ source_departure = l[1]
                               /\ source_arrival = l[2]
    /\ algorithm = "time_map"
    /\ compute_union = FALSE
    /\ compute_inter = FALSE
    /\ locations = << >>
    /\ error_body = CHOOSE b \in ErrorBodies : b.additional_info = << >>
    /\ result_type \in {"NORMAL", "UNION", "INTERSECTION"}
    /\ log_calls = FALSE
    /\ previous = NoPrevious
    /\ Idle

\* the usage warning is enabled, the counter is not over the limit and
\* nobody but the engine touches the settings
InitGuarded ==
    /\ version = "algorithms"
    /\ warning_enabled = TRUE
    /\ warning_limit \in 0..MaxLimit
    /\ current_count \in 0..warning_limit
    /\ cache = {}
    /\ \E l \in Layers : /\ source_departure = l[1]
                         /\ source_arrival = l[2]
    /\ Plain
    /\ Idle

\* the layers of the operations that are run again: two and three slices
RetryLayers == { <<11, NoSource>>, <<11, 3>>, <<21, NoSource>> }

\* an operation of several slices, on an empty cache and a counter at 0
InitRetry ==
    /\ version = "algorithms"
    /\ warning_enabled \in BOOLEAN
    /\ warning_limit = MaxLimit
    /\ current_count = 0
    /\ cache = {}
    /\ \E l \in RetryLayers : /\ source_departure = l[1]
                              /\ source_arrival = l[2]
    /\ Plain
    /\ Idle

(***************************************************************************)
(* AdvancedAlgorithmBase.processAlgorithm (src/algorithms.py).             *)
(***************************************************************************)
\* the error is reported but the loop is left instead of raising
FailContinue(kind) ==
    /\ reported' = kind
    /\ raised' = "none"
    /\ pc' = "output"

\* the error is reported and the request is sent again
FailRetry(kind) ==
    /\ reported' = kind
    /\ raised' = "none"
    /\ pc' = "request"

\* feedback.reportError(..., fatalError=True)
\* raise QgsProcessingException(...)
Fail(kind) ==
    /\ reported' = kind
    /\ raised' = "QgsProcessingException"
    /\ pc' = "failed"

\* the algorithm is run: APP_ID, API_KEY = auth.get_app_id_and_api_key()
Start ==
    /\ pc = "idle"
    /\ version = "algorithms"
    /\ \E app_id \in AppIds, api_key \in ApiKeys :
          /\ APP_ID' = app_id
          /\ API_KEY' = api_key
    /\ pc' = "credentials"
    /\ UNCHANGED << settings, cache, inputs, error_text, sinks, call,
                    slicing_count, slicing_i, data, i, response, from_cache,
                    results, reported, raised, returned, slices, posted,
                    netcalls, counted, first_over, external >>

\* lines 215-239: the API key check, the slicing count, results = []
Prepare ==
    /\ pc = "credentials"
    /\ version = "algorithms"
    /\ IF MissingCredentials(APP_ID, API_KEY)
         THEN /\ Fail("MissingCredentials")
              /\ UNCHANGED << slicing_count, slicing_i, results >>
         ELSE /\ slicing_count' = SlicingCount(featureCount(source_departure),
                                               featureCount(source_arrival))
              /\ slicing_i' = 0
              /\ results' = << >>
              /\ pc' = IF slicing_count' > 0 THEN "slice" ELSE "output"
              /\ UNCHANGED << reported, raised >>
    /\ UNCHANGED << settings, cache, inputs, error_text, sinks, call, APP_ID,
                    API_KEY, data, i, response, from_cache, returned, slices,
                    posted, netcalls, counted, first_over, external >>

\* lines 241-304: the payload of slice slicing_i; retries = 10
PrepareSlice ==
    /\ pc = "slice"
    /\ data' = RemixData(PrepareData(source_departure, source_arrival, slicing_i))
    /\ slices' = Append(slices, data')
    /\ i' = 0
    /\ response' = NoResponse
    /\ from_cache' = FALSE
    /\ counted' = FALSE
    /\ first_over' = FALSE
    /\ external' = FALSE
    /\ pc' = "check"
    /\ UNCHANGED << settings, cache, inputs, error_text, sinks, call, APP_ID,
                    API_KEY, slicing_count, slicing_i, results, reported,
                    raised, returned, posted, netcalls >>

\* the threshold compared with > instead of >=
OverLimitStrict(enabled, count, limit) == enabled /\ count + 1 > limit + 1

\* lines 306-309: count = current_count + 1, limit = warning_limit + 1,
\* if enabled and count >= limit
OverLimit(enabled, count, limit) == enabled /\ count + 1 >= limit + 1

\* a check that lets a request through when its response is in the cache
GuardCheckCacheFirst ==
    /\ pc = "check"
    /\ IF /\ OverLimit(warning_enabled, current_count, warning_limit)
          /\ ~Cached(cache, Fingerprint("POST", Url(version),
                                        Headers(APP_ID, API_KEY), data))
         THEN pc' = "sleep"
         ELSE pc' = "request"
    /\ first_over' = IF i = 0
                       THEN OverLimit(warning_enabled, current_count, warning_limit)
                       ELSE first_over
    /\ UNCHANGED << settings, cache, inputs, error_text, sinks, call, APP_ID,
                    API_KEY, slicing_count, slicing_i, data, i, response,
                    from_cache, results, reported, raised, returned, slices,
                    posted, netcalls, counted, external >>

\* lines 305-320: one check of the rate-limit loop
GuardCheck ==
    /\ pc = "check"
    /\ IF OverLimit(warning_enabled, current_count, warning_limit)
         THEN pc' = "sleep"
         ELSE pc' = "request"
    /\ first_over' = IF i = 0
                       THEN OverLimit(warning_enabled, current_count, warning_limit)
                       ELSE first_over
    /\ UNCHANGED << settings, cache, inputs, error_text, sinks, call, APP_ID,
                    API_KEY, slicing_count, slicing_i, data, i, response,
                    from_cache, results, reported, raised, returned, slices,
                    posted, netcalls, counted, external >>

\* the next index of  for i in range(retries)  once time.sleep(10) returns
NextRetry(n) == n + 1
\* a loop that runs one cycle more
InRangeInclusive(n) == n <= retries

\* the loop body runs again while the index is in range(retries)
InRange(n) == n < retries

\* a wait loop that unblocks itself: it resets the counter after the sleep
GuardSleepUnblock ==
    /\ pc = "sleep"
    /\ i' = NextRetry(i)
    /\ current_count' = 0
    /\ IF InRange(i')
         THEN /\ pc' = "check"
              /\ UNCHANGED << reported, raised >>
         ELSE /\ Fail("UsageLimitExceeded")
    /\ UNCHANGED << warning_enabled, warning_limit, cache, inputs, error_text,
                    sinks, call, APP_ID, API_KEY, slicing_count, slicing_i,
                    data, response, from_cache, results, returned, slices,
                    posted, netcalls, counted, first_over, external >>

\* lines 314, 305, 321-323: time.sleep(10) returns; the loop goes on, or its
\* else branch reports the usage limit and raises
GuardSleep ==
    /\ pc = "sleep"
    /\ i' = NextRetry(i)
    /\ IF InRange(i')
         THEN /\ pc' = "check"
              /\ UNCHANGED << reported, raised >>
         ELSE /\ Fail("UsageLimitExceeded")
    /\ UNCHANGED << settings, cache, inputs, error_text, sinks, call, APP_ID,
                    API_KEY, slicing_count, slicing_i, data, response,
                    from_cache, results, returned, slices, posted, netcalls,
                    counted, first_over, external >>

\* a counter update that adds two for a request
UpdateCountTwice(cached, count) == IF cached THEN count ELSE count + 2

\* a counter update that counts the cached responses too
UpdateCountAlways(cached, count) == count + 1

\* lines 337-341: if response.from_cache: ... else: s.setValue(current_count + 1)
UpdateCount(cached, count) == IF cached THEN count ELSE count + 1

\* lines 325-341, 359-362: the request log,
\* cached_requests.post(url, data=data, headers=headers),
\* then the counter update; a RequestException (an SSLError is one) is
\* reported by the one handler of line 359 and raised
Request ==
    /\ pc = "request"
    /\ version = "algorithms"
    /\ logged' = LogLines(log_calls, version, Headers(APP_ID, API_KEY), data)
    /\ sent' = Headers(APP_ID, API_KEY)
    /\ posted' = posted + 1
    /\ LET key == Fingerprint("POST", Url(version), Headers(APP_ID, API_KEY), data)
       IN IF Cached(cache, key)
            THEN /\ response' = Stored(cache, key)
                 /\ from_cache' = TRUE
                 /\ current_count' = UpdateCount(TRUE, current_count)
                 /\ pc' = "decode"
                 /\ UNCHANGED << cache, netcalls, reported, raised,
                                 exception >>
            ELSE /\ netcalls' = netcalls + 1
                 /\ \/ /\ \E e \in Exceptions : exception' = e
                       /\ Fail("TransportError")
                       /\ UNCHANGED << cache, response, from_cache,
                                       current_count >>
                    \/ /\ current_count < MaxCount
                       /\ \E resp \in Responses(data) :
                             /\ cache' = Store(cache, key, resp)
                             /\ response' = resp
                       /\ from_cache' = FALSE
                       /\ current_count' = UpdateCount(FALSE, current_count)
                       /\ pc' = "decode"
                       /\ UNCHANGED << reported, raised, exception >>
    /\ counted' = (current_count' # current_count)
    /\ UNCHANGED << warning_enabled, warning_limit, inputs, error_text, sinks,
                    APP_ID, API_KEY, slicing_count, slicing_i, data, i,
                    results, returned, slices, first_over, external >>

\* '\n'.join('\t{}:\t{}'.format(k, v) for k, v in additional_info.items())
RECURSIVE NiceInfo(_)
NiceInfo(additional_info) ==
    IF additional_info = << >> THEN << >>
    ELSE << "tab", Head(additional_info)[1], ":tab", Head(additional_info)[2] >>
         \o (IF Tail(additional_info) = << >> THEN << >> ELSE << "newline" >>)
         \o NiceInfo(Tail(additional_info))

\* a report that leaves the description out
ApiErrorMessageNoDescription(v, body) ==
    << (IF v = "algorithms" THEN "Recieved error from the API. Error code : "
                            ELSE "Received error from the API. Error code : "),
       body.error_code, " See : ", body.documentation_link,
       " Addtionnal info : " >> \o NiceInfo(body.additional_info)

\* tr('Recieved error from the API.\nError code : {}\nDescription : {}\nSee : {}
\* \nAddtionnal info :\n{}').format(error_code, description,
\* documentation_link, nice_info): the text, as its pieces in order
ApiErrorMessage(v, body) ==
    << (IF v = "algorithms" THEN "Recieved error from the API. Error code : "
                            ELSE "Received error from the API. Error code : "),
       body.error_code, " Description : ", body.description, " See : ",
       body.documentation_link, " Addtionnal info : " >>
    \o NiceInfo(body.additional_info)

\* the HTTP status examined before the body is decoded
OutcomeStatusFirst(resp) ==
    IF resp.status_code >= 400 THEN "ApiError"
    ELSE IF ~resp.valid THEN "DecodeError"
    ELSE "ok"

\* lines 349-350 (base.py 213-224): json.loads(response.text) raises
\* ValueError on a body that is no JSON; only then response.raise_for_status()
\* raises HTTPError on an error status
Outcome(resp) ==
    IF ~resp.valid THEN "DecodeError"
    ELSE IF resp.status_code >= 400 THEN "ApiError"
    ELSE "ok"

\* the new results put in front of the list
AccumulateInFront(acc, new) == new \o acc

\* line 351: results += response_data['results']
Accumulate(acc, new) == acc \o new

\* lines 349-366: json.loads(response.text), response.raise_for_status(),
\* results += response_data['results'], and the handlers of the two errors
Decode ==
    /\ pc = "decode"
    /\ version = "algorithms"
    /\ IF Outcome(response) = "DecodeError"
         THEN /\ Fail("DecodeError")
              /\ UNCHANGED error_text
              /\ UNCHANGED << results, slicing_i >>
         ELSE IF Outcome(response) = "ApiError"
         THEN /\ Fail("ApiError")
              /\ error_text' = ApiErrorMessage(version, response.error)
              /\ UNCHANGED << results, slicing_i >>
         ELSE /\ results' = Accumulate(results, response.results)
              /\ slicing_i' = slicing_i + 1
              /\ pc' = IF slicing_i' < slicing_count THEN "slice" ELSE "output"
              /\ UNCHANGED << reported, raised, error_text >>
    /\ UNCHANGED << settings, cache, inputs, sinks, call, APP_ID, API_KEY,
                    slicing_count, data, i, response, from_cache, returned,
                    slices, posted, netcalls, counted, first_over, external >>

\* a routing that sends every result to the searches layer
RouteAllSearches(search_id) == "searches"

\* lines 465-470: if result['search_id'] == 'union_all': sink_union
\* elif result['search_id'] == 'intersection_all': sink_inter  else: sink
Route(search_id) ==
    IF search_id = union_all THEN "union"
    ELSE IF search_id = intersection_all THEN "inter"
    ELSE "searches"

\* lines 459-462: the feature built from one result
TimeMapFeature(result) ==
    [id |-> result.search_id, properties |-> result.properties,
     geometry |-> result.shape]

\* TimeMapAlgorithm.processAlgorithmOutput (lines 458-470): for result in
\* results, one feature added to the sink the search_id selects
RECURSIVE TimeMapAlgorithm_processAlgorithmOutput(_, _)
TimeMapAlgorithm_processAlgorithmOutput(rest, s) ==
    IF rest = << >> THEN s
    ELSE LET result == Head(rest)
             feature == TimeMapFeature(result)
             to == Route(result.search_id)
         IN TimeMapAlgorithm_processAlgorithmOutput(Tail(rest),
                [s EXCEPT ![to] = Append(@, feature)])

\* get_location_feature returns None: no feature of the layer has the id
None == 0

\* lines 601-607: the first feature of INPUT_LOCATIONS whose id is id_, as its
\* position in the layer, or None
get_location_feature(locs, id_) ==
    IF \E k \in 1..Len(locs) : locs[k] = id_
      THEN CHOOSE k \in 1..Len(locs) :
               /\ locs[k] = id_
               /\ \A j \in 1..(k - 1) : locs[j] # id_
      ELSE None

\* an assertion that is compiled away
base_ft_unchecked(base_ft) == TRUE

\* lines 613, 623: assert(base_ft is not None)
base_ft_is_not_None(base_ft) == base_ft # None

\* the unreachable ids of a result, all dropped
UnreachableNone(result) == << >>

\* line 620: for id_ in result['unreachable']
Unreachable(result) == result.unreachable

\* lines 609-629: the lookups of  for result in results: for location in
\* result['locations']: ... for id_ in result['unreachable']: ...  in the
\* order the loops make them
RECURSIVE Lookups(_)
Lookups(rest) ==
    IF rest = << >> THEN << >>
    ELSE LET result == Head(rest)
         IN [k \in 1..Len(result.locations) |->
                [kind |-> "reached", search_id |-> result.search_id,
                 id |-> result.locations[k].id,
                 properties |-> result.locations[k].properties]]
            \o [k \in 1..Len(Unreachable(result)) |->
                   [kind |-> "unreachable", search_id |-> result.search_id,
                    id |-> Unreachable(result)[k], properties |-> ""]]
            \o Lookups(Tail(rest))

\* lines 611-619, 621-629: the feature copied from base_ft, with the
\* search_id (and the properties of a reached location) appended
TimeFilterFeature(lookup, base_ft) ==
    IF lookup.kind = "reached"
      THEN [base |-> base_ft, id |-> lookup.id, search_id |-> lookup.search_id,
            properties |-> lookup.properties]
      ELSE [base |-> base_ft, id |-> lookup.id, search_id |-> lookup.search_id]

\* the loops of TimeFilterAlgorithm.processAlgorithmOutput: every feature is
\* added to its sink as soon as it is built; a failed assertion ends them
RECURSIVE AddFeatures(_, _, _)
AddFeatures(locs, todo, s) ==
    IF todo = << >> THEN [sinks |-> s, asserted |-> TRUE]
    ELSE LET lookup == Head(todo)
             base_ft == get_location_feature(locs, lookup.id)
             feature == TimeFilterFeature(lookup, base_ft)
         IN IF ~base_ft_is_not_None(base_ft)
              THEN [sinks |-> s, asserted |-> FALSE]
              ELSE AddFeatures(locs, Tail(todo),
                       IF lookup.kind = "reached"
                         THEN [s EXCEPT !.reached = Append(@, feature)]
                         ELSE [s EXCEPT !.unreachable = Append(@, feature)])

\* TimeFilterAlgorithm.processAlgorithmOutput (lines 582-640)
TimeFilterAlgorithm_processAlgorithmOutput(rest, locs) ==
    AddFeatures(locs, Lookups(rest), NoSinks)

\* lines 368-371: return self.processAlgorithmOutput(results, ...)
Output ==
    /\ pc = "output"
    /\ CASE algorithm = "time_map" ->
              /\ sinks' = TimeMapAlgorithm_processAlgorithmOutput(results, NoSinks)
              /\ returned' = [called |-> TRUE, results |-> results]
              /\ pc' = "done"
              /\ UNCHANGED raised
         [] algorithm = "time_filter" ->
              LET out == TimeFilterAlgorithm_processAlgorithmOutput(results,
                                                                    locations)
              IN /\ sinks' = out.sinks
                 /\ IF out.asserted
                      THEN /\ returned' = [called |-> TRUE, results |-> results]
                           /\ pc' = "done"
                           /\ UNCHANGED raised
                      ELSE /\ raised' = "AssertionError"
                           /\ pc' = "failed"
                           /\ UNCHANGED returned
         [] OTHER ->
              /\ returned' = [called |-> TRUE, results |-> results]
              /\ pc' = "done"
              /\ UNCHANGED << raised, sinks >>
    /\ UNCHANGED << settings, cache, inputs, error_text, call, APP_ID,
                    API_KEY, slicing_count, slicing_i, data, i, response,
                    from_cache, results, reported, slices, posted, netcalls,
                    counted, first_over, external >>

(***************************************************************************)
(* TimeMapSimpleAlgorithm.processAlgorithm (src/algorithms.py).            *)
(***************************************************************************)
\* line 653: RESULT_TYPE = ['NORMAL', 'UNION', 'INTERSECTION']
RESULT_TYPE == {"NORMAL", "UNION", "INTERSECTION"}

\* line 713: 'INPUT_CALC_UNION': (result_type == 'UNION')
INPUT_CALC_UNION(rt) == rt = "UNION"

\* line 714: 'INPUT_CALC_INTER': (result_type == 'INTERSECTION')
INPUT_CALC_INTER(rt) == rt = "INTERSECTION"

\* the searches layer, whatever the result type is
result_layer_searches(outputs, rt) == outputs.searches

\* lines 727-732: the layer of the sub-algorithm's results that is copied
result_layer(outputs, rt) ==
    IF rt = "UNION" THEN outputs.union
    ELSE IF rt = "INTERSECTION" THEN outputs.inter
    ELSE outputs.searches

\* lines 697-723: the sub_parameters are built and processing.run starts
\* "ttp_v4:time_map", which reads the credentials
SimpleStart ==
    /\ pc = "idle"
    /\ result_type \in RESULT_TYPE
    /\ compute_union' = INPUT_CALC_UNION(result_type)
    /\ compute_inter' = INPUT_CALC_INTER(result_type)
    /\ \E app_id \in AppIds, api_key \in ApiKeys :
          /\ APP_ID' = app_id
          /\ API_KEY' = api_key
    /\ pc' = "credentials"
    /\ UNCHANGED << settings, cache, version, source_departure,
                    source_arrival, algorithm, locations, error_body,
                    result_type, log_calls, previous, error_text, sinks, call,
                    slicing_count, slicing_i, data, i, response, from_cache,
                    results, reported, raised, returned, slices, posted,
                    netcalls, counted, first_over, external >>

\* lines 725-747: processing.run has returned; the features of the selected
\* layer are copied to OUTPUT
SimpleFinish ==
    /\ pc = "done"
    /\ result_type \in RESULT_TYPE
    /\ sinks' = [sinks EXCEPT !.output = result_layer(sinks, result_type)]
    /\ pc' = "simple_done"
    /\ UNCHANGED << settings, cache, inputs, error_text, call, APP_ID,
                    API_KEY, slicing_count, slicing_i, data, i, response,
                    from_cache, results, reported, raised, returned, slices,
                    posted, netcalls, counted, first_over, external >>

\* the locals of an operation that is about to start
Fresh ==
    /\ pc' = "idle"
    /\ APP_ID' = "" /\ API_KEY' = ""
    /\ slicing_count' = 0 /\ slicing_i' = 0
    /\ data' = NoData
    /\ i' = 0
    /\ response' = NoResponse /\ from_cache' = FALSE
    /\ results' = << >>
    /\ reported' = "none" /\ raised' = "none"
    /\ returned' = NotReturned
    /\ slices' = << >>
    /\ posted' = 0 /\ netcalls' = 0
    /\ counted' = FALSE /\ first_over' = FALSE /\ external' = FALSE
    /\ error_text' = << >>
    /\ sinks' = NoSinks
    /\ exception' = "none"
    /\ logged' = << >>
    /\ sent' = NoHeaders

\* the operation has ended; the host is ready to run the next one
Rerun ==
    /\ pc \in {"done", "failed"}
    /\ Fresh
    /\ UNCHANGED << settings, cache, inputs >>

\* the operation has failed; the host is ready to run the same operation
\* again, on the shared state the failure has left
Retry ==
    /\ pc = "failed"
    /\ previous' = [failed |-> TRUE, slicing_i |-> slicing_i,
                    current_count |-> current_count]
    /\ Fresh
    /\ UNCHANGED << settings, cache, version, source_departure,
                    source_arrival, algorithm, compute_union, compute_inter,
                    locations, error_body, result_type, log_calls >>

(***************************************************************************)
(* AlgorithmBase.processAlgorithmMakeRequest                               *)
(* (src/travel_time_platform_plugin/algorithms/base.py).                   *)
(***************************************************************************)
\* the payloads the callers pass as data
Payloads == { PrepareData(1, NoSource, 0), PrepareData(2, NoSource, 0) }

\* line 151-154: json_data = json.dumps(data); auth.get_app_id_and_api_key()
MakeRequestStart ==
    /\ pc = "idle"
    /\ version = "base"
    /\ \E d \in Payloads : data' = d
    /\ \E app_id \in AppIds, api_key \in ApiKeys :
          /\ APP_ID' = app_id
          /\ API_KEY' = api_key
    /\ pc' = "credentials"
    /\ UNCHANGED << settings, cache, inputs, error_text, sinks, call,
                    slicing_count, slicing_i, i, response, from_cache,
                    results, reported, raised, returned, slices, posted,
                    netcalls, counted, first_over, external >>

\* lines 155-162: the API key check
MakeRequestCredentials ==
    /\ pc = "credentials"
    /\ version = "base"
    /\ IF MissingCredentials(APP_ID, API_KEY)
         THEN /\ Fail("MissingCredentials")
         ELSE /\ pc' = "request"
              /\ UNCHANGED << reported, raised >>
    /\ UNCHANGED << settings, cache, inputs, error_text, sinks, call, APP_ID,
                    API_KEY, slicing_count, slicing_i, data, i, response,
                    from_cache, results, returned, slices, posted, netcalls,
                    counted, first_over, external >>

\* lines 164-211: the headers, the request log, then
\* cache.instance.cached_requests.request(...), outside any try
MakeRequestSend ==
    /\ pc = "request"
    /\ version = "base"
    /\ logged' = LogLines(log_calls, version, Headers(APP_ID, API_KEY), data)
    /\ sent' = Headers(APP_ID, API_KEY)
    /\ posted' = posted + 1
    /\ LET key == Fingerprint("POST", Url(version), Headers(APP_ID, API_KEY), data)
       IN IF Cached(cache, key)
            THEN /\ response' = Stored(cache, key)
                 /\ from_cache' = TRUE
                 /\ pc' = "decode"
                 /\ UNCHANGED << cache, netcalls, raised, exception >>
            ELSE /\ netcalls' = netcalls + 1
                 /\ \/ /\ \E e \in Exceptions : /\ exception' = e
                                              /\ raised' = e
                       /\ pc' = "failed"
                       /\ UNCHANGED << cache, response, from_cache >>
                    \/ /\ \E resp \in Responses(data) :
                             /\ cache' = Store(cache, key, resp)
                             /\ response' = resp
                       /\ from_cache' = FALSE
                       /\ pc' = "decode"
                       /\ UNCHANGED << raised, exception >>
    /\ UNCHANGED << settings, inputs, error_text, sinks, APP_ID, API_KEY,
                    slicing_count, slicing_i, data, i, results, reported,
                    returned, slices, counted, first_over, external >>

\* a counter update that is forgotten
MakeRequestUpdateCountNever(cached, count) == count

\* lines 266-273: if response.from_cache: ... else: setValue(current_count + 1)
MakeRequestUpdateCount(cached, count) == IF cached THEN count ELSE count + 1

\* lines 213-281: decode, raise_for_status, the counter update, the return
MakeRequestFinish ==
    /\ pc = "decode"
    /\ version = "base"
    /\ IF Outcome(response) = "DecodeError"
         THEN /\ Fail("DecodeError")
              /\ UNCHANGED error_text
              /\ UNCHANGED << current_count, returned >>
         ELSE IF Outcome(response) = "ApiError"
         THEN /\ Fail("ApiError")
              /\ error_text' = ApiErrorMessage(version, response.error)
              /\ UNCHANGED << current_count, returned >>
         ELSE /\ from_cache \/ current_count < MaxCount
              /\ current_count' = MakeRequestUpdateCount(from_cache, current_count)
              /\ returned' = [called |-> TRUE, results |-> response.results]
              /\ pc' = "done"
              /\ UNCHANGED << reported, raised, error_text >>
    /\ counted' = (current_count' # current_count)
    /\ UNCHANGED << warning_enabled, warning_limit, cache, inputs, sinks,
                    call, APP_ID, API_KEY, slicing_count, slicing_i, data, i,
                    response, from_cache, results, slices, posted, netcalls,
                    first_over, external >>

(***************************************************************************)
(* The environment: the operator's settings dialog and the passing of      *)
(* time.                                                                   *)
(***************************************************************************)
InGuard == pc \in {"check", "sleep"}

\* the operator raises or lowers the warning limit
SetWarningLimit ==
    /\ version = "algorithms"
    /\ \E l \in 0..MaxLimit : /\ l # warning_limit
                              /\ warning_limit' = l
    /\ external' = (external \/ InGuard)
    /\ UNCHANGED << warning_enabled, current_count, cache, inputs, error_text,
                    sinks, call, pc, APP_ID, API_KEY, slicing_count,
                    slicing_i, data, i, response, from_cache, results,
                    reported, raised, returned, slices, posted, netcalls,
                    counted, first_over >>

\* the operator enables or disables the usage warning
SetWarningEnabled ==
    /\ version = "algorithms"
    /\ warning_enabled' = ~warning_enabled
    /\ external' = (external \/ InGuard)
    /\ UNCHANGED << warning_limit, current_count, cache, inputs, error_text,
                    sinks, call, pc, APP_ID, API_KEY, slicing_count,
                    slicing_i, data, i, response, from_cache, results,
                    reported, raised, returned, slices, posted, netcalls,
                    counted, first_over >>

\* the operator resets the queries counter
ResetCounter ==
    /\ current_count # 0
    /\ current_count' = 0
    /\ external' = (external \/ InGuard)
    /\ UNCHANGED << warning_enabled, warning_limit, cache, inputs, error_text,
                    sinks, call, pc, APP_ID, API_KEY, slicing_count,
                    slicing_i, data, i, response, from_cache, results,
                    reported, raised, returned, slices, posted, netcalls,
                    counted, first_over >>

\* expire_after = 86400: an entry of the cache expires
Expire ==
    /\ \E e \in cache : cache' = cache \ {e}
    /\ UNCHANGED << settings, inputs, pc, locals >>

(***************************************************************************)
(* Specifications.                                                         *)
(***************************************************************************)
Run ==
    \/ Prepare \/ PrepareSlice \/ GuardCheck \/ GuardSleep
    \/ Request \/ Decode \/ Output

Engine == Start \/ Run

\* TimeMapSimpleAlgorithm around the engine it runs as a sub-algorithm
Simple == SimpleStart \/ Run \/ SimpleFinish

MakeRequest ==
    \/ MakeRequestStart \/ MakeRequestCredentials \/ MakeRequestSend
    \/ MakeRequestFinish

Operator == SetWarningLimit \/ SetWarningEnabled \/ ResetCounter

Next == Engine \/ MakeRequest \/ Rerun \/ Operator \/ Expire

Spec == Init /\ [][Next]_vars

\* one operation of the engine on layers of any size, left alone
SpecBatch == InitBatch /\ [][Engine]_vars

\* one operation of TimeMapAlgorithm or TimeFilterAlgorithm
SpecAlgorithms == InitAlgorithms /\ [][Engine]_vars

\* processAlgorithmOutput of TimeMapAlgorithm and TimeFilterAlgorithm on the
\* results of any response
SpecCorrelate == InitCorrelate /\ [][Output]_vars

\* one operation of TimeMapSimpleAlgorithm
SpecSimple == InitSimple /\ [][Simple]_vars

\* operations of the engine, one after the other, with the settings left
\* to the engine
SpecGuarded == InitGuarded /\ [][Engine \/ Rerun \/ Expire]_vars

\* an operation that is run again each time it fails, nothing expiring
SpecRetry == InitRetry /\ [][Engine \/ Retry]_vars

\* one request cycle of either revision, for every error body
SpecErrors == InitErrors /\ [][Engine \/ MakeRequest]_vars

\* the engine is single-threaded and synchronous: it keeps running
SpecBatchFair == SpecBatch /\ WF_vars(Engine)

(***************************************************************************)
(* Properties.                                                             *)
(***************************************************************************)
\* the records of one side at the positions [k*10, (k+1)*10) that exist
Expected(deparr, source, k) ==
    IF source = NoSource \/ source <= k * 10 THEN << >>
    ELSE [j \in 1..(IF source - k * 10 < 10 THEN source - k * 10 ELSE 10) |->
             Search(deparr, k * 10 + j - 1)]

\* the searches of one side over all the slices built, in slice order
RECURSIVE Concat(_, _)
Concat(seq, side) ==
    IF seq = << >> THEN << >>
    ELSE (IF side = "departure" THEN Head(seq).departure_searches
                                ELSE Head(seq).arrival_searches)
         \o Concat(Tail(seq), side)

\* the least n with n * 10 >= m
Ceil10(m) == CHOOSE n \in 0..m : n * 10 >= m /\ (n = 0 \/ (n - 1) * 10 < m)

\* C1: an operation that is not aborted runs exactly ceil(max(Nd,Na)/10)
\* slices; slice k holds, for each side, exactly the records at the positions
\* [k*10, (k+1)*10) that exist (none, and no key, for an absent side), at most
\* 10 per side; over the slices every record of a side appears exactly once,
\* in input order.
C1_Batching ==
    /\ \A k \in 1..Len(slices) :
          /\ slices[k].departure_searches =
                Expected("departure", source_departure, k - 1)
          /\ slices[k].arrival_searches =
                Expected("arrival", source_arrival, k - 1)
          /\ Len(slices[k].departure_searches) <= 10
          /\ Len(slices[k].arrival_searches) <= 10
          /\ ("departure_searches" \in slices[k].keys) = (source_departure # NoSource)
          /\ ("arrival_searches" \in slices[k].keys) = (source_arrival # NoSource)
    /\ pc \in {"output", "done"} =>
          /\ Len(slices) = Ceil10(Max(featureCount(source_departure),
                                      featureCount(source_arrival)))
          /\ Concat(slices, "departure") =
                [p \in 1..featureCount(source_departure) |->
                    Search("departure", p - 1)]
          /\ Concat(slices, "arrival") =
                [p \in 1..featureCount(source_arrival) |-> Search("arrival", p - 1)]
          /\ \A f \in 0..(featureCount(source_departure) - 1) :
                Cardinality({ k \in 1..Len(slices) :
                    \E j \in 1..Len(slices[k].departure_searches) :
                        slices[k].departure_searches[j].id.fid = f }) = 1
          /\ \A f \in 0..(featureCount(source_arrival) - 1) :
                Cardinality({ k \in 1..Len(slices) :
                    \E j \in 1..Len(slices[k].arrival_searches) :
                        slices[k].arrival_searches[j].id.fid = f }) = 1

\* three slices were run over two sides of different sizes
C1_Witness ==
    /\ pc = "done"
    /\ Len(slices) = 3
    /\ source_departure > 20
    /\ source_arrival \in 1..9
    /\ Len(slices[3].departure_searches) > 0
    /\ slices[2].arrival_searches = << >>

\* the failures of a request cycle
CycleFailures == {"UsageLimitExceeded", "ApiError", "TransportError", "DecodeError"}

\* C2: once the request cycle of slice k has failed the operation is aborted
\* at that slice: slice k is the last one built, no request was or is issued
\* for a later slice, processAlgorithmOutput is not invoked and nothing
\* accumulated reaches the caller.
C2_Inv ==
    (version = "algorithms" /\ reported \in CycleFailures) =>
        /\ pc = "failed"
        /\ raised = "QgsProcessingException"
        /\ returned = NotReturned
        /\ Len(slices) = slicing_i + 1
        /\ posted <= slicing_i + 1

C2_Step ==
    (version = "algorithms" /\ reported \in CycleFailures) =>
        /\ posted' <= posted
        /\ netcalls' <= netcalls
        /\ returned' = NotReturned
        /\ Len(slices') <= Len(slices)

C2_Abort == [] C2_Inv /\ [][C2_Step]_vars

\* slice 1 failed with results of slice 0 accumulated
C2_Witness ==
    /\ version = "algorithms"
    /\ pc = "failed"
    /\ reported = "ApiError"
    /\ slicing_i = 1
    /\ results # << >>
    /\ returned = NotReturned

\* C3: the first check of a request attempt goes on to the request without
\* sleeping exactly when warning_enabled is false or current_count <
\* warning_limit, and to the wait loop otherwise.
C3_Step ==
    (pc = "check" /\ i = 0 /\ pc' # pc) =>
        /\ (pc' = "request") = (~warning_enabled \/ current_count < warning_limit)
        /\ (pc' = "sleep") = (warning_enabled /\ current_count >= warning_limit)

C3_Threshold == [][C3_Step]_vars

\* the guard let the request through, without a sleep, at current_count = L-1
C3_Witness ==
    /\ pc = "request"
    /\ i = 0
    /\ ~external
    /\ warning_enabled
    /\ current_count = warning_limit - 1

\* C4: the wait loop never runs more than 10 cycles; after the 10th sleep the
\* guard fails: the usage-limit error is reported, QgsProcessingException is
\* raised, and no request was issued for that slice nor is any slice built
\* after it.
C4_Bounded ==
    /\ i <= 10
    /\ pc = "sleep" => i < 10
    /\ pc = "check" => i < 10
    /\ i = 10 => reported = "UsageLimitExceeded"
    /\ reported = "UsageLimitExceeded" =>
          /\ pc = "failed"
          /\ i = 10
          /\ raised = "QgsProcessingException"
          /\ posted = slicing_i
          /\ Len(slices) = slicing_i + 1
          /\ returned = NotReturned

\* the guard of the second slice failed after its 10 sleeps
C4_Witness ==
    /\ reported = "UsageLimitExceeded"
    /\ i = 10
    /\ slicing_i = 1
    /\ posted = 1

\* C5: every sleep of the wait loop is followed by a re-check before the
\* guard fails: the guard goes from a sleep to FAIL only with the persisted
\* state still over the threshold.
C5_Recheck ==
    [][(pc = "sleep" /\ pc' = "failed") =>
          (warning_enabled /\ current_count >= warning_limit)]_vars

\* C6: the wait loop writes nothing to the persisted state; left alone, a
\* guard that is over the threshold at its first check never lets the request
\* through and ends with the usage-limit failure.
C6_Frame ==
    (pc \in {"check", "sleep"}) =>
        /\ warning_enabled' = warning_enabled
        /\ current_count' = current_count
        /\ warning_limit' = warning_limit

C6_NeverOK ==
    first_over =>
        /\ pc \in {"check", "sleep", "failed"}
        /\ posted = slicing_i
        /\ pc = "failed" => reported = "UsageLimitExceeded"

C6_LeftAlone ==
    /\ [][C6_Frame]_vars
    /\ [] C6_NeverOK
    /\ (first_over ~> (pc = "failed" /\ reported = "UsageLimitExceeded"))

\* a guard over the threshold at its first check, in its wait loop
C6_Witness ==
    /\ first_over
    /\ pc = "sleep"
    /\ i = 5
    /\ slicing_i > 0
    /\ results # << >>

\* C7: a request cycle that ends in a failure (HTTP error status, undecodable
\* body, transport failure) has not written current_count.
C7_OnlyOnSuccess ==
    reported \in {"ApiError", "DecodeError", "TransportError"} => ~counted

\* the fingerprint of the request about to be sent
Key == Fingerprint("POST", Url(version), Headers(APP_ID, API_KEY), data)

\* C8: a request with a live cache entry for its fingerprint is answered with
\* the stored response, without a network call and without an increment of
\* current_count; the entry stays, so this repeats for every repetition.
C8_Step ==
    /\ (posted' = posted + 1 /\ Cached(cache, Key)) =>
          /\ netcalls' = netcalls
          /\ current_count' = current_count
          /\ from_cache'
          /\ response' = Stored(cache, Key)
          /\ cache' = cache
    /\ (pc = "decode" /\ from_cache /\ pc' # pc) =>
          current_count' = current_count

C8_CacheHit == [][C8_Step]_vars

\* an operation of two slices served from the cache alone
C8_Witness ==
    /\ pc = "done"
    /\ posted = 2
    /\ netcalls = 0
    /\ from_cache
    /\ returned.results # << >>

\* C9: a request whose body differs from every cached request goes to the
\* network; the response received is stored; a non-cached successful request
\* adds exactly 1 to current_count, and current_count never grows by more, nor
\* without a non-cached request.
C9_Step ==
    /\ (posted' = posted + 1 /\ \A e \in cache : e.key.body # data) =>
          /\ netcalls' = netcalls + 1
          /\ pc' = "decode" =>
                /\ ~from_cache'
                /\ Cached(cache', Key)
                /\ Stored(cache', Key) = response'
    /\ (version = "algorithms" /\ posted' = posted + 1 /\ pc' = "decode"
            /\ ~from_cache') =>
          current_count' = current_count + 1
    /\ (version = "base" /\ pc = "decode" /\ ~from_cache /\ pc' = "done") =>
          current_count' = current_count + 1
    /\ current_count' > current_count =>
          /\ current_count' = current_count + 1
          /\ netcalls' + netcalls > 0
          /\ IF version = "algorithms"
               THEN posted' = posted + 1 /\ ~from_cache'
               ELSE pc' = "done" /\ ~from_cache

C9_CacheMiss == [][C9_Step]_vars

\* two non-cached successful requests, two increments
C9_Witness ==
    /\ pc = "done"
    /\ netcalls = 2
    /\ current_count = 2
    /\ Cardinality(cache) = 2

\* C10: with the application id or the API key missing the operation fails
\* with the missing-credentials report before anything else: no payload is
\* built, the caching client is not called, no network call is made and
\* current_count and the cache are left as they were.
C10_Inv ==
    /\ reported = "MissingCredentials" =>
          /\ pc = "failed"
          /\ raised = "QgsProcessingException"
          /\ posted = 0
          /\ netcalls = 0
          /\ ~counted
          /\ slices = << >>
          /\ returned = NotReturned
    /\ (pc # "idle" /\ (APP_ID = "" \/ API_KEY = "")) =>
          /\ pc \in {"credentials", "failed"}
          /\ posted = 0
          /\ netcalls = 0
          /\ pc = "failed" => reported = "MissingCredentials"

C10_Step ==
    (pc = "credentials" /\ (APP_ID = "" \/ API_KEY = "") /\ pc' # pc) =>
        /\ pc' = "failed"
        /\ reported' = "MissingCredentials"
        /\ current_count' = current_count
        /\ cache' = cache

C10_NoCredentials == [] C10_Inv /\ [][C10_Step]_vars

\* the API key alone is missing, with a counter and a cache in use
C10_Witness ==
    /\ pc = "failed"
    /\ reported = "MissingCredentials"
    /\ APP_ID # ""
    /\ current_count > 0
    /\ cache # {}

\* the pieces of a reported text
Pieces(text) == { text[k] : k \in 1..Len(text) }

\* C11: a response with an HTTP error status and a structured error body is
\* reported as ApiError; the reported text holds the error_code and the
\* description of the body verbatim, its documentation link and every key and
\* value of additional_info, and the operation ends with
\* QgsProcessingException.
C11_ApiError ==
    /\ (pc = "decode" /\ response.valid /\ response.status_code >= 400) =>
          response.error = error_body
    /\ reported = "ApiError" =>
          /\ pc = "failed"
          /\ raised = "QgsProcessingException"
          /\ returned = NotReturned
          /\ response.status_code >= 400
          /\ response.valid
          /\ error_body.error_code \in Pieces(error_text)
          /\ error_body.description \in Pieces(error_text)
          /\ error_body.documentation_link \in Pieces(error_text)
          /\ \A k \in 1..Len(error_body.additional_info) :
                /\ error_body.additional_info[k][1] \in Pieces(error_text)
                /\ error_body.additional_info[k][2] \in Pieces(error_text)
    /\ (pc = "failed" /\ response.valid /\ response.status_code >= 400) =>
          reported = "ApiError"

\* an error with two entries of additional_info was reported
C11_Witness ==
    /\ reported = "ApiError"
    /\ Len(error_body.additional_info) = 2
    /\ "no credit" \in Pieces(error_text)


(***************************************************************************)
(* C12.                                                                    *)
(***************************************************************************)
\* C12: an exception raised while the request is sent never leaves the
\* engine unclassified: a certificate failure (SSLError) is reported as a
\* fatal TlsError, every other transport failure as a fatal TransportError,
\* and in both cases the operation ends with a QgsProcessingException.
C12_Classified ==
    exception # "none" =>
        /\ raised = "QgsProcessingException"
        /\ reported = (IF exception = "SSLError" THEN "TlsError"
                                                 ELSE "TransportError")

(***************************************************************************)
(* C13.                                                                    *)
(***************************************************************************)
RequestFailures == {"ApiError", "TransportError", "TlsError", "DecodeError"}

\* each slice has sent at most one request; the rate-limit loop runs before
\* the request of its slice is sent
C13_Inv ==
    /\ netcalls <= posted
    /\ posted <= slicing_i + 1
    /\ pc \in {"slice", "check", "sleep", "request"} => posted = slicing_i
    /\ pc = "decode" => posted = slicing_i + 1
    /\ pc \in {"output", "done"} /\ version = "algorithms" => posted = slicing_i
    /\ version = "base" => posted <= 1

\* once a request has failed, no request is sent in this operation
C13_Step ==
    (reported \in RequestFailures \/ exception # "none") =>
        /\ posted' <= posted
        /\ netcalls' <= netcalls

\* C13: no failed request is retried: within one operation each slice sends
\* at most one HTTP request, after an ApiError, a TransportError, a TlsError
\* or a DecodeError nothing is sent again, and the only loop that repeats,
\* the rate-limit wait loop, runs before the request of its slice is sent.
C13_NoRetry == [] C13_Inv /\ [][C13_Step]_vars

C13_Witness ==
    /\ pc = "failed"
    /\ reported = "DecodeError"
    /\ slicing_i = 1
    /\ posted = 2


(***************************************************************************)
(* C17.                                                                    *)
(***************************************************************************)
\* the ids of the searches slice k is built from, departure side first
SliceIds(k) ==
    SearchIds(Expected("departure", source_departure, k))
    \o SearchIds(Expected("arrival", source_arrival, k))

\* C17: in every payload TimeMapAlgorithm builds, the key 'unions' is present
\* exactly when union is requested and then holds exactly one descriptor,
\* with id 'union_all' and search_ids = the ids of the departure searches of
\* the request followed by those of its arrival searches; likewise for
\* 'intersections' and 'intersection_all'; the searches are left as built.
C17_Descriptors ==
    algorithm = "time_map" =>
        \A k \in 1..Len(slices) :
            LET d == slices[k]
            IN /\ ("unions" \in d.keys) = compute_union
               /\ ("intersections" \in d.keys) = compute_inter
               /\ d.unions =
                     IF compute_union
                       THEN << [id |-> union_all, search_ids |-> SliceIds(k - 1)] >>
                       ELSE << >>
               /\ d.intersections =
                     IF compute_inter
                       THEN << [id |-> intersection_all,
                                search_ids |-> SliceIds(k - 1)] >>
                       ELSE << >>
               /\ d.departure_searches =
                     Expected("departure", source_departure, k - 1)
               /\ d.arrival_searches = Expected("arrival", source_arrival, k - 1)
               /\ d.locations = << >>

\* a request with both sides was sent with a union and no intersection
C17_Witness ==
    /\ algorithm = "time_map"
    /\ compute_union /\ ~compute_inter
    /\ pc = "done"
    /\ source_departure = 1 /\ source_arrival = 1
    /\ Len(slices[1].unions[1].search_ids) = 2

(***************************************************************************)
(* C18.                                                                    *)
(***************************************************************************)
\* the ids of all the searches of the operation
OperationIds ==
    { Search("departure", f).id : f \in 0..(featureCount(source_departure) - 1) }
    \cup { Search("arrival", f).id : f \in 0..(featureCount(source_arrival) - 1) }

Elements(seq) == { seq[k] : k \in 1..Len(seq) }

\* C18: every aggregation descriptor that is sent references every search id
\* built from the input records of the operation, whatever their number.
C18_EverySearchId ==
    algorithm = "time_map" =>
        \A k \in 1..Len(slices) :
            /\ \A j \in 1..Len(slices[k].unions) :
                  OperationIds \subseteq Elements(slices[k].unions[j].search_ids)
            /\ \A j \in 1..Len(slices[k].intersections) :
                  OperationIds \subseteq
                      Elements(slices[k].intersections[j].search_ids)

(***************************************************************************)
(* C19.                                                                    *)
(***************************************************************************)
\* the ids a remixed search refers to
Referenced(search) ==
    IF "departure_location_id" \in DOMAIN search
      THEN {search.departure_location_id} \cup Elements(search.arrival_location_ids)
      ELSE {search.arrival_location_id} \cup Elements(search.departure_location_ids)

\* C19: in every payload TimeFilterAlgorithm builds no search carries coords;
\* a departure search has departure_location_id = its id, an arrival search
\* arrival_location_id = its id; the locations list is made of the records of
\* the location layer followed by one {id, coords} entry per departure
\* search and per arrival search; every id a search refers to is in the list.
C19_Remix ==
    algorithm = "time_filter" =>
        \A k \in 1..Len(slices) :
            LET d == slices[k]
                dep == Expected("departure", source_departure, k - 1)
                arr == Expected("arrival", source_arrival, k - 1)
            IN /\ "locations" \in d.keys
               /\ Len(d.departure_searches) = Len(dep)
               /\ Len(d.arrival_searches) = Len(arr)
               /\ \A j \in 1..Len(dep) :
                     /\ "coords" \notin DOMAIN d.departure_searches[j]
                     /\ d.departure_searches[j].id = dep[j].id
                     /\ d.departure_searches[j].departure_location_id = dep[j].id
               /\ \A j \in 1..Len(arr) :
                     /\ "coords" \notin DOMAIN d.arrival_searches[j]
                     /\ d.arrival_searches[j].id = arr[j].id
                     /\ d.arrival_searches[j].arrival_location_id = arr[j].id
               /\ d.locations =
                     [j \in 1..Len(locations) |->
                         [id |-> locations[j], coords |-> j - 1]]
                     \o [j \in 1..Len(dep) |->
                            [id |-> dep[j].id, coords |-> dep[j].coords]]
                     \o [j \in 1..Len(arr) |->
                            [id |-> arr[j].id, coords |-> arr[j].coords]]
               /\ \A j \in 1..Len(dep) :
                     Referenced(d.departure_searches[j])
                         \subseteq Elements(SearchIds(d.locations))
               /\ \A j \in 1..Len(arr) :
                     Referenced(d.arrival_searches[j])
                         \subseteq Elements(SearchIds(d.locations))

\* two slices of a two-sided operation were remixed with two locations
C19_Witness ==
    /\ algorithm = "time_filter"
    /\ pc = "done"
    /\ Len(slices) = 2
    /\ Len(slices[1].locations) = 2 + 10 + 3
    /\ Len(slices[2].locations) = 2 + 2

(***************************************************************************)
(* C20.                                                                    *)
(***************************************************************************)
\* the counterpart id list of a remixed search
Counterparts(search) ==
    IF "arrival_location_ids" \in DOMAIN search
      THEN search.arrival_location_ids
      ELSE search.departure_location_ids

RECURSIVE Without(_, _)
Without(seq, x) ==
    IF seq = << >> THEN << >>
    ELSE (IF Head(seq) = x THEN << >> ELSE << Head(seq) >>)
         \o Without(Tail(seq), x)

\* the remixed searches of a payload
RemixedSearches(d) == d.departure_searches \o d.arrival_searches

Count(seq, x) == Cardinality({ k \in 1..Len(seq) : seq[k] = x })

\* the reached locations of the results, in order, each with the search_id
\* of its result
RECURSIVE ReachedOf(_)
ReachedOf(rest) ==
    IF rest = << >> THEN << >>
    ELSE [j \in 1..Len(Head(rest).locations) |->
             [search_id |-> Head(rest).search_id,
              id |-> Head(rest).locations[j].id,
              properties |-> Head(rest).locations[j].properties]]
         \o ReachedOf(Tail(rest))

\* the unreachable ids of the results, in order, each with the search_id of
\* its result
RECURSIVE UnreachableOf(_)
UnreachableOf(rest) ==
    IF rest = << >> THEN << >>
    ELSE [j \in 1..Len(Head(rest).unreachable) |->
             [search_id |-> Head(rest).search_id,
              id |-> Head(rest).unreachable[j]]]
         \o UnreachableOf(Tail(rest))

\* the ids of the request that no result carries
Unanswered == { id \in CorrelateIds : \A k \in 1..Len(results) :
                                          results[k].search_id # id }

\* C14: the correlation emits output only for what the result list holds.
\* TimeMapAlgorithm adds exactly one feature per result, with the search_id,
\* the properties and the shape of that result.  TimeFilterAlgorithm adds
\* only features of entries of the results and, when it completes, exactly
\* one reached feature per entry of each result's locations and one
\* unreachable feature per id of its unreachable list, in order, each with
\* the search_id of its result.  No feature carries the id of a search that
\* has no result.
C14_Correlation ==
    pc # "output" =>
        /\ algorithm = "time_map" =>
              LET out == sinks.searches \o sinks.union \o sinks.inter
              IN /\ Len(out) = Len(results)
                 /\ \A k \in 1..Len(results) :
                       Count(out, [id |-> results[k].search_id,
                                   properties |-> results[k].properties,
                                   geometry |-> results[k].shape])
                           = Count(results, results[k])
                 /\ \A j \in 1..Len(out) : out[j].id \notin Unanswered
                 /\ sinks.reached = << >> /\ sinks.unreachable = << >>
        /\ algorithm = "time_filter" =>
              LET reached == [j \in 1..Len(sinks.reached) |->
                                 [search_id |-> sinks.reached[j].search_id,
                                  id |-> sinks.reached[j].id,
                                  properties |-> sinks.reached[j].properties]]
                  unreachable == [j \in 1..Len(sinks.unreachable) |->
                                     [search_id |-> sinks.unreachable[j].search_id,
                                      id |-> sinks.unreachable[j].id]]
              IN /\ \A j \in 1..Len(reached) :
                       /\ reached[j] \in Elements(ReachedOf(results))
                       /\ reached[j].search_id \notin Unanswered
                 /\ \A j \in 1..Len(unreachable) :
                       /\ unreachable[j] \in Elements(UnreachableOf(results))
                       /\ unreachable[j].search_id \notin Unanswered
                 /\ Len(reached) <= Len(ReachedOf(results))
                 /\ Len(unreachable) <= Len(UnreachableOf(results))
                 /\ pc = "done" =>
                       /\ reached = ReachedOf(results)
                       /\ unreachable = UnreachableOf(results)
                 /\ sinks.searches = << >> /\ sinks.union = << >>
                 /\ sinks.inter = << >>

\* two results of one search were correlated, with locations reached and
\* unreachable, and the other search of the request has no result
C14_Witness ==
    /\ algorithm = "time_filter"
    /\ pc = "done"
    /\ Len(results) = 2
    /\ Search("departure", 1).id \in Unanswered
    /\ Len(sinks.reached) = 2
    /\ Len(sinks.unreachable) = 1

(***************************************************************************)
(* C15.                                                                    *)
(***************************************************************************)
\* the features of the results whose search_id is in ids, in order
RECURSIVE FeaturesOf(_, _)
FeaturesOf(rest, ids) ==
    IF rest = << >> THEN << >>
    ELSE (IF Head(rest).search_id \in ids
            THEN << [id |-> Head(rest).search_id,
                     properties |-> Head(rest).properties,
                     geometry |-> Head(rest).shape] >>
            ELSE << >>)
         \o FeaturesOf(Tail(rest), ids)

\* C15: TimeMapAlgorithm.processAlgorithmOutput routes every result to
\* exactly one layer: the union layer holds the features of the results with
\* search_id 'union_all' and no other, the intersection layer those with
\* 'intersection_all' and no other, the searches layer all the others.
C15_Routing ==
    (algorithm = "time_map" /\ pc # "output") =>
        /\ sinks.union = FeaturesOf(results, {union_all})
        /\ sinks.inter = FeaturesOf(results, {intersection_all})
        /\ sinks.searches =
              FeaturesOf(results, CorrelateIds \ {union_all, intersection_all})
        /\ Len(sinks.union) + Len(sinks.inter) + Len(sinks.searches)
              = Len(results)

\* a union, an intersection and a search result were routed
C15_Witness ==
    /\ algorithm = "time_map"
    /\ pc = "done"
    /\ Len(sinks.union) = 1
    /\ Len(sinks.inter) = 1
    /\ Len(sinks.searches) = 1

(***************************************************************************)
(* C16.                                                                    *)
(***************************************************************************)
\* the ids the results refer to that no feature of the location layer has
MissingIds ==
    { x.id : x \in Elements(ReachedOf(results)) \cup Elements(UnreachableOf(results)) }
    \ Elements(locations)

RECURSIVE MergedResults(_)
MergedResults(n) ==
    IF n = 0 THEN << >>
    ELSE MergedResults(n - 1)
         \o ResultsFor(Expected("departure", source_departure, n - 1)
                       \o Expected("arrival", source_arrival, n - 1))

\* slice slicing_i is the only one in progress: the slices before it are
\* built, requested and merged, no later one is built
C22_Inv ==
    /\ results = MergedResults(IF pc \in {"idle", "credentials"} THEN 0
                               ELSE slicing_i)
    /\ pc \in {"check", "sleep", "request", "decode"} =>
          /\ Len(slices) = slicing_i + 1
          /\ data = slices[slicing_i + 1]
    /\ pc \in {"check", "sleep", "request"} => posted = slicing_i
    /\ pc = "decode" => posted = slicing_i + 1
    /\ pc \in {"slice", "output", "done"} =>
          /\ Len(slices) = slicing_i
          /\ posted = slicing_i

\* a slice is built only once the one before it is merged, and slicing_i
\* advances by one, with the results of its response appended
C22_Step ==
    /\ Len(slices') > Len(slices) =>
          /\ Len(slices') = Len(slices) + 1
          /\ Len(slices) = slicing_i
          /\ Len(results) = Len(MergedResults(slicing_i))
    /\ slicing_i' # slicing_i =>
          /\ slicing_i' = slicing_i + 1
          /\ pc = "decode"
          /\ results' = results \o response.results

\* C22: the slices are processed strictly in order, one at a time: the guard
\* and the request of slice i+1 start only after the response of slice i was
\* received and its results appended, and the merged result list is the
\* concatenation of the result lists of the slices, in slice order.
C22_InOrder == [] C22_Inv /\ [][C22_Step]_vars

\* three slices were merged
C22_Witness ==
    /\ pc = "done"
    /\ slicing_i = 3
    /\ Len(results) > 20
    /\ results[1].search_id.fid = 0
    /\ results[Len(results)].search_id.fid >= 20


(***************************************************************************)
(* C23.                                                                    *)
(***************************************************************************)
\* C23: AlgorithmBase.processAlgorithmMakeRequest sends no request while the
\* usage warning is enabled and current_count >= warning_limit.
C23_Step ==
    (version = "base" /\ posted' = posted + 1) =>
        ~(warning_enabled /\ current_count >= warning_limit)

C23_LimitChecked == [][C23_Step]_vars


(***************************************************************************)
(* C21.                                                                    *)
(***************************************************************************)
\* C21: TimeMapSimpleAlgorithm gives the engine the two flags of its result
\* type: NORMAL (false, false), UNION (true, false), INTERSECTION
\* (false, true), never both true, and the requests are built with them; the
\* features of OUTPUT are those of OUTPUT_SEARCHES for NORMAL, of
\* OUTPUT_UNION for UNION, of OUTPUT_INTER for INTERSECTION, and no other.
C21_Simple ==
    result_type # "none" =>
        /\ pc # "idle" =>
              /\ compute_union = (result_type = "UNION")
              /\ compute_inter = (result_type = "INTERSECTION")
              /\ ~(compute_union /\ compute_inter)
        /\ \A k \in 1..Len(slices) :
              /\ ("unions" \in slices[k].keys) = (result_type = "UNION")
              /\ ("intersections" \in slices[k].keys)
                    = (result_type = "INTERSECTION")
        /\ pc # "simple_done" => sinks.output = << >>
        /\ pc = "simple_done" =>
              /\ result_type = "NORMAL" => sinks.output = sinks.searches
              /\ result_type = "UNION" => sinks.output = sinks.union
              /\ result_type = "INTERSECTION" => sinks.output = sinks.inter
              /\ \A k \in 1..Len(sinks.output) :
                    /\ (sinks.output[k].id = union_all) = (result_type = "UNION")
                    /\ (sinks.output[k].id = intersection_all)
                          = (result_type = "INTERSECTION")

\* the union of two searches was copied to OUTPUT, the searches were not
C21_Witness ==
    /\ result_type = "UNION"
    /\ pc = "simple_done"
    /\ Len(sinks.searches) = 2
    /\ Len(sinks.output) = 1
    /\ sinks.output[1].id = union_all


(***************************************************************************)
(* C24.                                                                    *)
(***************************************************************************)
\* C24: when an id lookup of TimeFilterAlgorithm.processAlgorithmOutput fails,
\* no feature of the operation has been added to the reached or to the
\* unreachable output.
C24_NoPartialOutput ==
    (algorithm = "time_filter" /\ pc = "failed" /\ raised = "AssertionError") =>
        /\ sinks.reached = << >>
        /\ sinks.unreachable = << >>


(***************************************************************************)
(* C25.                                                                    *)
(***************************************************************************)
\* a response was received and the request cycle has ended
Received == response.status_code # 0 /\ pc \in {"failed", "done", "output", "slice"}

\* C25: the body is decoded before the status is examined: a response whose
\* body is no valid JSON is reported as DecodeError whatever its status, an
\* ApiError is reported only for a body that decoded with an error status,
\* and a body that decoded with no error status is no failure.
C25_DecodeFirst ==
    /\ reported = "DecodeError" => ~response.valid
    /\ reported = "ApiError" => response.valid /\ response.status_code >= 400
    /\ Received =>
          /\ ~response.valid => reported = "DecodeError" /\ pc = "failed"
          /\ (response.valid /\ response.status_code >= 400) =>
                reported = "ApiError" /\ pc = "failed"
          /\ (response.valid /\ response.status_code < 400) =>
                reported = "none" /\ pc # "failed"

\* an error status with an undecodable body was reported as DecodeError
C25_Witness ==
    /\ pc = "failed"
    /\ reported = "DecodeError"
    /\ response.status_code >= 400
    /\ ~response.valid


(***************************************************************************)
(* C29.                                                                    *)
(***************************************************************************)
\* credentials other than the ones of the run
OtherCredentials == {"app", "other"} \X {"key", "other"}

\* C29: with the calls logged, the request log of
\* AlgorithmBase.processAlgorithmMakeRequest holds '*hidden*' in place of
\* X-Application-Id and of X-Api-Key and no credential value: the log is the
\* one the same request writes with any other credentials; the headers
\* handed to the HTTP client carry the credentials themselves.
C29_Hidden ==
    (version = "base" /\ posted > 0) =>
        /\ APP_ID # "" /\ API_KEY # ""
        /\ sent = Headers(APP_ID, API_KEY)
        /\ sent.app_id = APP_ID /\ sent.api_key = API_KEY
        /\ ~log_calls => logged = << >>
        /\ log_calls =>
              /\ Len(logged) = 1
              /\ logged[1].headers.app_id = "*hidden*"
              /\ logged[1].headers.api_key = "*hidden*"
              /\ logged[1].headers.app_id # APP_ID
              /\ logged[1].headers.api_key # API_KEY
              /\ logged[1].data = data
              /\ \A c \in OtherCredentials :
                    logged = LogLines(TRUE, version, Headers(c[1], c[2]), data)

\* a request was logged and sent with the credentials
C29_Witness ==
    /\ version = "base"
    /\ log_calls
    /\ posted = 1
    /\ logged # << >>
    /\ sent.app_id = "app" /\ sent.api_key = "key"


(***************************************************************************)
(* C26.                                                                    *)
(***************************************************************************)
\* the guard of a request whose response is live in the cache
C26_Step ==
    /\ (/\ version = "algorithms"
        /\ pc = "check"
        /\ warning_enabled
        /\ current_count >= warning_limit
        /\ Cached(cache, Key)) =>
           /\ pc' \in {"check", "sleep"}
           /\ posted' = posted
           /\ response' = response
    /\ (/\ pc = "sleep"
        /\ Cached(cache, Key)
        /\ i' # i
        /\ i' >= retries) =>
           /\ pc' = "failed"
           /\ reported' = "UsageLimitExceeded"
           /\ posted' = posted
           /\ from_cache' = FALSE

\* C26: the guard is evaluated before the cache is consulted: over the
\* threshold, a request whose response is live in the cache is held in the
\* wait loop like any other, is not served while the state stays over the
\* threshold, and fails once the sleeps are used up.
C26_GuardBeforeCache == [][C26_Step]_vars

\* the guard has failed a request, left alone over the threshold, whose
\* response is live in the cache
C26_Witness ==
    /\ pc = "failed"
    /\ reported = "UsageLimitExceeded"
    /\ first_over /\ ~external
    /\ Cached(cache, Key)
    /\ posted = slicing_i


(***************************************************************************)
(* C27.                                                                    *)
(***************************************************************************)
\* a request is sent only under the limit and adds at most one
C27_Step ==
    /\ posted' = posted + 1 => current_count < warning_limit
    /\ current_count' <= current_count + 1
    /\ warning_limit' = warning_limit

\* C27: with the warning enabled, the limit L fixed, a counter that starts
\* at most at L and no change of the settings from outside, current_count
\* never exceeds L, over any number of operations and slices: a request is
\* sent only while current_count < L and adds at most 1.
C27_NeverOver == [](current_count <= warning_limit) /\ [][C27_Step]_vars

\* the request of the second slice has brought the counter to the limit
C27_Witness ==
    /\ pc = "decode"
    /\ counted
    /\ slicing_i = 1
    /\ warning_limit = MaxLimit
    /\ current_count = warning_limit


(***************************************************************************)
(* C28.                                                                    *)
(***************************************************************************)
\* the fingerprint of the request of the j-th slice built
SliceKey(j) == Fingerprint("POST", Url(version), Headers(APP_ID, API_KEY), slices[j])

\* what a failure leaves, and what the same operation finds when run again
C28_Inv ==
    /\ pc = "failed" =>
          /\ \A j \in 1..slicing_i : Cached(cache, SliceKey(j))
          /\ ~previous.failed => current_count >= slicing_i
    /\ previous.failed =>
          /\ current_count >= previous.current_count
          /\ (pc = "decode" /\ slicing_i < previous.slicing_i) =>
                /\ from_cache
                /\ ~counted
                /\ netcalls = 0
                /\ current_count = previous.current_count

\* neither the failure nor the new run undoes anything
C28_Step ==
    (pc' = "failed" \/ pc = "failed") =>
        /\ cache \subseteq cache'
        /\ current_count' >= current_count

\* C28: a failed operation does not roll back its effects on the shared
\* state: when slice k fails after slices 0..k-1 succeeded, current_count
\* keeps the increments of their requests and their responses stay in the
\* cache, so the same operation, run again, is served the responses of
\* slices 0..k-1 from the cache, without any increment.
C28_NoRollback == [] C28_Inv /\ [][C28_Step]_vars

\* the third slice had failed; run again, the second slice was served from
\* the cache with the counter where the failure had left it
C28_Witness ==
    /\ previous.failed
    /\ previous.slicing_i = 2
    /\ previous.current_count >= 2
    /\ pc = "decode"
    /\ slicing_i = 1
    /\ from_cache
    /\ current_count = previous.current_count

=============================================================================
